---- MODULE Spec2Model ----
(***************************************************************************)
(* A model of ocron (src/ocrond.c): the crontab parser, the next-fire      *)
(* computation update_job, and the main loop with its SIGCHLD handler.     *)
(*                                                                         *)
(* Bit masks (long long / long / short) are modelled as the set of their   *)
(* set bit positions; ~0 of a type is the full set of that type's width.   *)
(* time_t is an integer number of seconds and local time is UTC (no        *)
(* daylight saving), so localtime_r and mktime are the proleptic Gregorian *)
(* conversions. TLC's integers have 32 bits where the daemon's time_t has  *)
(* 64, so the model counts time_t from EpochDay (2030-01-01 00:00:00)      *)
(* instead of 1970-01-01: instants from 1962 to 2098 are then in range.    *)
(* The code only ever subtracts two time_t values or converts them with    *)
(* localtime_r and mktime, so the origin does not show in its behaviour.   *)
(***************************************************************************)
EXTENDS Integers, Sequences, FiniteSets, TLC

VARIABLES
    text,        \* the contents of the crontab file (a sequence of characters)
    jobs,        \* the job table: jobs[idx + 1] is the C jobs[idx]; numJobs = Len(jobs)
    now,         \* main's local `now`
    next,        \* main's local `next`
    hasZombies,  \* the sig_atomic_t flag set by sigchld_handler
    pc,          \* where the main thread is
    clock,       \* the system's wall clock (what time(2) returns)
    tv_sec,      \* spec.tv_sec of the nanosleep in progress
    procs,       \* the kernel's view of the daemon's children: pid -> record
    event,       \* what wait_for_event returned last
    fork_pid,    \* what fork() returned in the last run_job (0: not called)
    fires        \* number of update_job calls made by the fire-sequence harness

vars == <<text, jobs, now, next, hasZombies, pc, clock, tv_sec, procs, event,
          fork_pid, fires>>

----------------------------------------------------------------------------
(* config.def.h *)

WAKEUP_PERIOD == 60
CATCHUP_LIMIT == 60
MAX_LOOKAHEAD == 2000

(* Widths of the mask types of struct Job on an LP64 platform. *)
LongLongBits == 64
LongBits == 64
ShortBits == 16

AllOnes(width) == 0 .. (width - 1)

MIN(a, b) == IF a < b THEN a ELSE b

SetMin(S) == CHOOSE x \in S : \A y \in S : x <= y

----------------------------------------------------------------------------
(* Calendar. *)

is_leap_year(year) ==
    IF year % 4 = 0 /\ (year % 100 # 0 \/ year % 400 = 0) THEN 1 ELSE 0

(* (month % 7 + 1) & 1 is 1 exactly when month % 7 is even. *)
days_in_month(month, year) ==
    IF month # 1
    THEN 30 + (IF ((month % 7) + 1) % 2 = 1 THEN 1 ELSE 0)
    ELSE 28 + is_leap_year(year)

(* Days since 1970-01-01 of the civil date (year, month 1..12, day). *)
DaysFromEra(era, yoe, doy) ==
    era * 146097 + yoe * 365 + (yoe \div 4) - (yoe \div 100) + doy - 719468

DaysFromMarchYear(y, mp, d) ==
    DaysFromEra(y \div 400, y % 400, ((153 * mp + 2) \div 5) + d - 1)

DaysFromCivil(y0, m, d) ==
    DaysFromMarchYear(IF m <= 2 THEN y0 - 1 ELSE y0,
                      IF m > 2 THEN m - 3 ELSE m + 9, d)

(* The civil date of a day number: [year, mon 0..11, mday 1..31]. *)
CivilOfMonth(era, yoe, doy, mp) ==
    [year |-> yoe + era * 400 + (IF mp >= 10 THEN 1 ELSE 0),
     mon  |-> (IF mp < 10 THEN mp + 3 ELSE mp - 9) - 1,
     mday |-> doy - ((153 * mp + 2) \div 5) + 1]

CivilOfDayOfYear(era, yoe, doy) ==
    CivilOfMonth(era, yoe, doy, (5 * doy + 2) \div 153)

CivilOfYearOfEra(era, doe, yoe) ==
    CivilOfDayOfYear(era, yoe, doe - (365 * yoe + (yoe \div 4) - (yoe \div 100)))

CivilOfEra(era, doe) ==
    CivilOfYearOfEra(era, doe,
        (doe - (doe \div 1460) + (doe \div 36524) - (doe \div 146096)) \div 365)

CivilFromDays(days) ==
    CivilOfEra((days + 719468) \div 146097, (days + 719468) % 146097)

(* The day number (days since 1970-01-01) at which the model's time_t is 0. *)
EpochDay == DaysFromCivil(2030, 1, 1)

(* localtime_r(&t, &tm) in a zone without daylight saving (UTC).           *)
(* tm_year counts from 1900, tm_mon from 0, tm_wday from Sunday = 0.       *)
TmOf(c, t) ==
    [tm_sec  |-> t % 60,
     tm_min  |-> (t % 3600) \div 60,
     tm_hour |-> (t % 86400) \div 3600,
     tm_mday |-> c.mday,
     tm_mon  |-> c.mon,
     tm_year |-> c.year - 1900,
     tm_wday |-> (EpochDay + (t \div 86400) + 4) % 7]

localtime_r(t) == TmOf(CivilFromDays(EpochDay + (t \div 86400)), t)

(* mktime(&tm): out-of-range tm_min and tm_hour are normalised by carrying *)
(* into the next hour and day; tm_wday is ignored.                         *)
mktime(tm) ==
    (DaysFromCivil(1900 + tm.tm_year, tm.tm_mon + 1, tm.tm_mday) - EpochDay)
            * 86400
        + tm.tm_hour * 3600 + tm.tm_min * 60 + tm.tm_sec

----------------------------------------------------------------------------
(* The VALID_ macros: (mask >> pos) & 1. *)

VALID_HOUR(job, hour) == hour \in job.hours
VALID_MDAY(job, mday) == mday \in job.mdays
VALID_WDAY(job, wday) == wday \in job.wdays
VALID_DAY(job, mday, wday) == VALID_MDAY(job, mday) \/ VALID_WDAY(job, wday)
VALID_MONTH(job, month) == month \in job.months
VALID_DATE(job, mday, wday, month) ==
    VALID_DAY(job, mday, wday) /\ VALID_MONTH(job, month)

----------------------------------------------------------------------------
(* Job time-finding algorithm (update_job). *)

(* ffsll(mask) - 1 and ffsl(mask) - 1 for a non-zero mask: the lowest set bit. *)
ffs_minus_1(mask) == SetMin(mask)

(* The same mask taken from one minute too early, as if ++tm.tm_min were   *)
(* missing.                                                                *)
minutes_left_same(job, tm_min) == {b \in job.minutes : b >= tm_min - 1}

(* job.minutes & ~0ULL << tm_min, with tm_min already incremented. *)
minutes_left(job, tm_min) == {b \in job.minutes : b >= tm_min}

(* The same mask shifted one bit too far, which drops the next hour. *)
hours_left_skip(job, tm_hour) == {b \in job.hours : b > tm_hour}

(* job.hours & ~0UL << tm_hour, with tm_hour already incremented. *)
hours_left(job, tm_hour) == {b \in job.hours : b >= tm_hour}

(* One day forward: lines 259-266. *)
advance_day(tm) ==
    LET wday == (tm.tm_wday + 1) % 7
        mday == tm.tm_mday + 1
    IN  IF mday > days_in_month(tm.tm_mon, 1900 + tm.tm_year)
        THEN IF tm.tm_mon + 1 >= 12
             THEN [tm EXCEPT !.tm_wday = wday, !.tm_mday = 1, !.tm_mon = 0,
                             !.tm_year = tm.tm_year + 1]
             ELSE [tm EXCEPT !.tm_wday = wday, !.tm_mday = 1,
                             !.tm_mon = tm.tm_mon + 1]
        ELSE [tm EXCEPT !.tm_wday = wday, !.tm_mday = mday]

(* One pass through the body of the do-while loop, lines 252-267.          *)
(* s.st is "loop" while the loop goes on, "finished" once VALID_DATE holds *)
(* and "evicted" once the lookahead counter exceeds MAX_LOOKAHEAD.         *)
day_checked(job, tm, la) ==
    [tm |-> tm, lookahead |-> la,
     st |-> IF VALID_DATE(job, tm.tm_mday, tm.tm_wday, tm.tm_mon)
            THEN "finished" ELSE "loop"]

(* The same pass without the lookahead guard of lines 253-257. *)
day_step_unguarded(job, s) == day_checked(job, advance_day(s.tm), s.lookahead + 1)

day_step(job, s) ==
    IF s.lookahead + 1 > MAX_LOOKAHEAD
    THEN [s EXCEPT !.lookahead = s.lookahead + 1, !.st = "evicted"]
    ELSE day_checked(job, advance_day(s.tm), s.lookahead + 1)

(* At most n passes of the loop, stopping as soon as it has left "loop". *)
RECURSIVE day_run(_, _, _)
day_run(job, s, n) ==
    IF s.st # "loop" \/ n = 0 THEN s ELSE day_run(job, day_step(job, s), n - 1)

(* The same, taken in runs of at most 64 passes to keep the evaluation     *)
(* shallow.                                                                *)
RECURSIVE day_loop(_, _, _)
day_loop(job, s, n) ==
    IF s.st # "loop" \/ n = 0 THEN s
    ELSE day_loop(job, day_run(job, s, MIN(n, 64)), n - MIN(n, 64))

(* Lines 251-267: the day, month and year. *)
day_axis(job, tm) ==
    day_loop(job, [tm |-> tm, lookahead |-> 0, st |-> "loop"], MAX_LOOKAHEAD + 1)

Finished(tm) == [tm |-> tm, lookahead |-> 0, st |-> "finished"]

(* Lines 239-249, then the day axis. tm.tm_min is already set. *)
hour_axis(job, tm, today_alright) ==
    IF today_alright /\ hours_left(job, tm.tm_hour + 1) # {}
    THEN Finished([tm EXCEPT
                     !.tm_hour = ffs_minus_1(hours_left(job, tm.tm_hour + 1))])
    ELSE day_axis(job, [tm EXCEPT !.tm_hour = ffs_minus_1(job.hours)])

(* Lines 227-237, then the hour axis. *)
minute_axis(job, tm, today_alright) ==
    IF /\ today_alright
       /\ VALID_HOUR(job, tm.tm_hour)
       /\ minutes_left(job, tm.tm_min + 1) # {}
    THEN Finished([tm EXCEPT
                     !.tm_min = ffs_minus_1(minutes_left(job, tm.tm_min + 1))])
    ELSE hour_axis(job, [tm EXCEPT !.tm_min = ffs_minus_1(job.minutes)],
                   today_alright)

(* Lines 225-267 on the broken-down time tm. *)
find_from(job, tm) ==
    minute_axis(job, tm, VALID_DATE(job, tm.tm_mday, tm.tm_wday, tm.tm_mon))

(* Lines 219-267: the broken-down time update_job arrives at for `job`     *)
(* given `t`, or st = "evicted".                                           *)
find_tm(job, t) == find_from(job, [localtime_r(t) EXCEPT !.tm_sec = 0])

(* jobs[idx] = jobs[--numJobs]. *)
remove_job(J, idx) ==
    IF idx = Len(J) - 1 THEN SubSeq(J, 1, Len(J) - 1)
    ELSE [SubSeq(J, 1, Len(J) - 1) EXCEPT ![idx + 1] = J[Len(J)]]

(* Lines 252-270: the table after the search has ended with r. *)
store_time(J, idx, r) ==
    IF r.st = "evicted" THEN remove_job(J, idx)
    ELSE [J EXCEPT ![idx + 1].time = mktime(r.tm)]

(* update_job(idx, now) on the table J: the table afterwards. *)
update_job(J, idx, t) == store_time(J, idx, find_tm(J[idx + 1], t))

(* closest_job without the scan of lines 279-282. *)
closest_job_first(J) == IF Len(J) = 0 THEN -1 ELSE 0

(* closest_job(): the first index with the minimum time, -1 for none. *)
closest_job(J) ==
    IF Len(J) = 0 THEN -1
    ELSE SetMin({i \in 0 .. Len(J) - 1 :
                    \A k \in 0 .. Len(J) - 1 : J[i + 1].time <= J[k + 1].time})

----------------------------------------------------------------------------
(* Crontab parsing. The buffer T is a sequence of one-character strings;   *)
(* C's text pointer is the 1-based position p, and the terminating NUL is  *)
(* what is read one past the end of T.                                     *)

NUL == "NUL"
NL == "\n"

At(T, p) == IF p >= 1 /\ p <= Len(T) THEN T[p] ELSE NUL

Digits == <<"0", "1", "2", "3", "4", "5", "6", "7", "8", "9">>
isdigit(c) == \E i \in 1 .. 10 : Digits[i] = c
DigitVal(c) == (CHOOSE i \in 1 .. 10 : Digits[i] = c) - 1

(* isblank(3) in the C locale: space and tab. *)
isblank(c) == c \in {" ", "\t"}

UpperCase == <<"A", "B", "C", "D", "E", "F", "G", "H", "I", "J", "K", "L", "M",
               "N", "O", "P", "Q", "R", "S", "T", "U", "V", "W", "X", "Y", "Z">>
LowerCase == <<"a", "b", "c", "d", "e", "f", "g", "h", "i", "j", "k", "l", "m",
               "n", "o", "p", "q", "r", "s", "t", "u", "v", "w", "x", "y", "z">>
tolower(c) ==
    IF \E i \in 1 .. 26 : UpperCase[i] = c
    THEN LowerCase[CHOOSE i \in 1 .. 26 : UpperCase[i] = c]
    ELSE c

no_aliases == << >>
months_aliases ==
    << <<"J", "a", "n">>, <<"F", "e", "b">>, <<"M", "a", "r">>, <<"A", "p", "r">>,
       <<"M", "a", "y">>, <<"J", "u", "n">>, <<"J", "u", "l">>, <<"A", "u", "g">>,
       <<"S", "e", "p">>, <<"O", "c", "t">>, <<"N", "o", "v">>, <<"D", "e", "c">> >>
wdays_aliases ==
    << <<"S", "u", "n">>, <<"M", "o", "n">>, <<"T", "u", "e">>, <<"W", "e", "d">>,
       <<"T", "h", "u">>, <<"F", "r", "i">>, <<"S", "a", "t">> >>

(* pstrchrnul(text, ch): the first position at or after p holding ch or NUL. *)
RECURSIVE pstrchrnul(_, _, _)
pstrchrnul(T, p, ch) ==
    IF At(T, p) = NUL \/ At(T, p) = ch THEN p ELSE pstrchrnul(T, p + 1, ch)

eat_char(T, p, c) ==
    IF At(T, p) = c THEN [r |-> TRUE, p |-> p + 1] ELSE [r |-> FALSE, p |-> p]

RECURSIVE SkipBlanks(_, _)
SkipBlanks(T, p) == IF isblank(At(T, p)) THEN SkipBlanks(T, p + 1) ELSE p

skip_space(T, p) ==
    IF ~isblank(At(T, p)) THEN [rc |-> -1, p |-> p]
    ELSE [rc |-> 0, p |-> SkipBlanks(T, p + 1)]

(* The do-while loop of parse_number: num = num * 10 + *text++ - '0'. *)
RECURSIVE NumberLoop(_, _, _)
NumberLoop(T, p, num) ==
    IF isdigit(At(T, p + 1))
    THEN NumberLoop(T, p + 1, num * 10 + DigitVal(At(T, p)))
    ELSE [rc |-> 0, p |-> p + 1, number |-> num * 10 + DigitVal(At(T, p))]

parse_number(T, p) ==
    IF ~isdigit(At(T, p)) THEN [rc |-> -1, p |-> p, number |-> 0]
    ELSE NumberLoop(T, p, 0)

(* strncasecmp(text, alias, strlen(alias)) == 0 *)
alias_matches(T, p, alias) ==
    \A k \in 1 .. Len(alias) : tolower(At(T, p + k - 1)) = tolower(alias[k])

(* The first alias that matches at p, counted from 1; 0 for none. *)
find_alias(T, p, aliases) ==
    IF \E i \in 1 .. Len(aliases) : alias_matches(T, p, aliases[i])
    THEN SetMin({k \in 1 .. Len(aliases) : alias_matches(T, p, aliases[k])})
    ELSE 0

alias_value(p, aliases, i) ==
    IF i = 0 THEN [rc |-> -1, p |-> p, number |-> 0]
    ELSE [rc |-> 0, p |-> p + Len(aliases[i]), number |-> i - 1]

parse_value(T, p, aliases) ==
    IF isdigit(At(T, p)) THEN parse_number(T, p)
    ELSE alias_value(p, aliases, find_alias(T, p, aliases))

(* for (i = first; i <= last; i += step) *field |= 1ULL << i; *)
range_bits(first, last, step) ==
    {i \in first .. last : (i - first) % step = 0}

Fail(p, field) == [rc |-> -1, p |-> p, field |-> field]

(* parse_range, lines 350-357: after the "/" of a "*" range; st is the     *)
(* result of parse_number.                                                 *)
star_step(min, max, field, st) ==
    IF st.rc < 0 THEN Fail(st.p, field)
    ELSE IF st.number < 1 THEN Fail(st.p, field)
    ELSE [rc |-> 0, p |-> st.p,
          field |-> field \cup range_bits(min, max, st.number)]

(* Lines 349-357: after the "*"; slash is the result of eat_char('/'). *)
star_range(min, max, field, T, slash) ==
    IF slash.r THEN star_step(min, max, field, parse_number(T, slash.p))
    ELSE [rc |-> 0, p |-> slash.p, field |-> field]

(* The same without the check of line 370 (last > max). *)
value_bits_unchecked(min, max, field, first, last, step, p) ==
    IF first > last THEN Fail(p, field)
    ELSE IF first < min THEN Fail(p, field)
    ELSE IF step < 1 THEN Fail(p, field)
    ELSE [rc |-> 0, p |-> p, field |-> field \cup range_bits(first, last, step)]

(* Lines 368-376: the checks and the bits of a first-last/step range. *)
value_bits(min, max, field, first, last, step, p) ==
    IF first > last THEN Fail(p, field)
    ELSE IF first < min THEN Fail(p, field)
    ELSE IF last > max THEN Fail(p, field)
    ELSE IF step < 1 THEN Fail(p, field)
    ELSE [rc |-> 0, p |-> p, field |-> field \cup range_bits(first, last, step)]

(* Line 364: st is the result of parse_number(&step). *)
value_step(min, max, field, first, last, st) ==
    IF st.rc < 0 THEN Fail(st.p, field)
    ELSE value_bits(min, max, field, first, last, st.number, st.p)

(* Lines 363-366: slash is the result of eat_char('/'). *)
value_slash(min, max, field, T, first, last, slash) ==
    IF slash.r
    THEN value_step(min, max, field, first, last, parse_number(T, slash.p))
    ELSE value_bits(min, max, field, first, last, 1, slash.p)

(* Line 362: lv is the result of parse_value(aliases, &last). *)
value_last(min, max, field, T, first, lv) ==
    IF lv.rc < 0 THEN Fail(lv.p, field)
    ELSE value_slash(min, max, field, T, first, lv.number,
                     eat_char(T, lv.p, "/"))

(* Lines 360-366: dash is the result of eat_char('-'). *)
value_dash(min, max, aliases, field, T, first, dash) ==
    IF dash.r
    THEN value_last(min, max, field, T, first, parse_value(T, dash.p, aliases))
    ELSE value_bits(min, max, field, first, first, 1, dash.p)

(* Lines 359-376: fv is the result of parse_value(aliases, &first). *)
value_range(min, max, aliases, field, T, fv) ==
    IF fv.rc < 0 THEN Fail(fv.p, field)
    ELSE value_dash(min, max, aliases, field, T, fv.number,
                    eat_char(T, fv.p, "-"))

parse_range(min, max, aliases, field, T, p) ==
    IF eat_char(T, p, "*").r
    THEN star_range(min, max, field, T, eat_char(T, p + 1, "/"))
    ELSE value_range(min, max, aliases, field, T, parse_value(T, p, aliases))

(* do parse_range while (eat_char(',')); r is the result of parse_range. *)
RECURSIVE RangeList(_, _, _, _, _, _)
range_more(min, max, aliases, T, r) ==
    IF r.rc < 0 THEN r
    ELSE IF eat_char(T, r.p, ",").r
    THEN RangeList(min, max, aliases, r.field, T, r.p + 1)
    ELSE r

RangeList(min, max, aliases, field, T, p) ==
    range_more(min, max, aliases, T, parse_range(min, max, aliases, field, T, p))

(* Line 387 of parse_field: r is what the range list came to. *)
field_end(T, r) ==
    IF r.rc < 0 THEN r
    ELSE [rc |-> skip_space(T, r.p).rc, p |-> skip_space(T, r.p).p,
          field |-> r.field]

parse_field(min, max, aliases, T, p) ==
    field_end(T, RangeList(min, max, aliases, {}, T, p))

(* The decoding loop of parse_command, lines 406-414: `out` is what has    *)
(* been written so far, `esc` whether the last character was a backslash.  *)
RECURSIVE DecodeLoop(_, _, _, _, _)
DecodeLoop(T, p, eol, out, esc) ==
    IF p >= eol THEN out
    ELSE IF At(T, p) = "%"
    THEN IF esc
         THEN DecodeLoop(T, p + 1, eol,
                         Append(SubSeq(out, 1, Len(out) - 1), "%"), FALSE)
         ELSE DecodeLoop(T, p + 1, eol, Append(out, NL), FALSE)
    ELSE DecodeLoop(T, p + 1, eol, Append(out, At(T, p)), At(T, p) = "\\")

(* The decoded text as it is, as if line 419 were missing. *)
CutAtNewline_skipped(out) == out

(* Line 419: the command is cut at the first newline of the decoded text. *)
CutAtNewline(out) ==
    IF \E i \in 1 .. Len(out) : out[i] = NL
    THEN SubSeq(out, 1, SetMin({i \in 1 .. Len(out) : out[i] = NL}) - 1)
    ELSE out

parse_command(T, p, eol) ==
    IF p >= eol THEN [rc |-> -1, command |-> << >>]
    ELSE [rc |-> 0, command |-> CutAtNewline(DecodeLoop(T, p, eol, << >>, FALSE))]

(* job.wdays |= job.wdays >> 7 & 1 *)
fold_sunday(wdays) == IF 7 \in wdays THEN wdays \cup {0} ELSE wdays

(* The same without lines 462-464: mdays is left empty. *)
fill_unrestricted_but_mdays(job) ==
    [job EXCEPT
       !.minutes = IF job.minutes = {} THEN AllOnes(LongLongBits) ELSE job.minutes,
       !.hours   = IF job.hours = {} THEN AllOnes(LongBits) ELSE job.hours,
       !.months  = IF job.months = {} THEN AllOnes(ShortBits) ELSE job.months,
       !.wdays   = fold_sunday(job.wdays)]

(* Lines 457-464: fill in unrestricted fields. *)
fill_unrestricted(job) ==
    [job EXCEPT
       !.minutes = IF job.minutes = {} THEN AllOnes(LongLongBits) ELSE job.minutes,
       !.hours   = IF job.hours = {} THEN AllOnes(LongBits) ELSE job.hours,
       !.months  = IF job.months = {} THEN AllOnes(ShortBits) ELSE job.months,
       !.wdays   = fold_sunday(job.wdays),
       !.mdays   = IF job.mdays = {} /\ fold_sunday(job.wdays) = {}
                   THEN AllOnes(LongBits) ELSE job.mdays]

(* memset(&job, 0, sizeof(job)); job.lineno = lineno; *)
empty_job(lineno) ==
    [minutes |-> {}, time |-> 0, command |-> << >>, hours |-> {}, mdays |-> {},
     pid |-> 0, months |-> {}, wdays |-> {}, lineno |-> lineno]

(* Lines 455-474: cmd is the result of parse_command. *)
line_command(J, job, cmd) ==
    IF cmd.rc < 0 THEN [rc |-> -1, jobs |-> J]
    ELSE [rc |-> 0,
          jobs |-> Append(J, fill_unrestricted([job EXCEPT !.command = cmd.command]))]

(* Lines 452-455: f is the result of parse_field for the weekdays. *)
line_wdays(J, T, eol, job, f) ==
    IF f.rc < 0 THEN [rc |-> -1, jobs |-> J]
    ELSE line_command(J, [job EXCEPT !.wdays = f.field], parse_command(T, f.p, eol))

(* Lines 449-452: f is the result of parse_field for the months. *)
line_months(J, T, eol, job, f) ==
    IF f.rc < 0 THEN [rc |-> -1, jobs |-> J]
    ELSE line_wdays(J, T, eol, [job EXCEPT !.months = f.field],
                    parse_field(0, 7, wdays_aliases, T, f.p))

(* Lines 446-449: f is the result of parse_field for the days of month. *)
line_mdays(J, T, eol, job, f) ==
    IF f.rc < 0 THEN [rc |-> -1, jobs |-> J]
    ELSE line_months(J, T, eol, [job EXCEPT !.mdays = f.field],
                     parse_field(0, 11, months_aliases, T, f.p))

(* Lines 443-446: f is the result of parse_field for the hours. *)
line_hours(J, T, eol, job, f) ==
    IF f.rc < 0 THEN [rc |-> -1, jobs |-> J]
    ELSE line_mdays(J, T, eol, [job EXCEPT !.hours = f.field],
                    parse_field(1, 31, no_aliases, T, f.p))

(* Lines 440-443: f is the result of parse_field for the minutes. *)
line_minutes(J, T, eol, job, f) ==
    IF f.rc < 0 THEN [rc |-> -1, jobs |-> J]
    ELSE line_hours(J, T, eol, [job EXCEPT !.minutes = f.field],
                    parse_field(0, 23, no_aliases, T, f.p))

(* Lines 436-440, with text at p after the leading blanks. *)
line_start(J, T, p, eol, lineno) ==
    IF At(T, p) = "#" THEN [rc |-> 0, jobs |-> J]
    ELSE IF At(T, p) = NUL \/ At(T, p) = NL THEN [rc |-> 0, jobs |-> J]
    ELSE line_minutes(J, T, eol, empty_job(lineno),
                      parse_field(0, 59, no_aliases, T, p))

(* parse_line(lineno) with text at p and the line ending at eol: the       *)
(* return code and the table afterwards.                                   *)
parse_line(J, T, p, eol, lineno) ==
    line_start(J, T, SkipBlanks(T, p), eol, lineno)

(* The loop of parse_file, lines 485-492. *)
RECURSIVE ParseLines(_, _, _, _)
next_line(T, eol, lineno, r) ==
    IF At(T, eol) = NUL THEN r.jobs
    ELSE ParseLines(r.jobs, T, eol + 1, lineno + 1)

line_at(J, T, p, eol, lineno) ==
    next_line(T, eol, lineno, parse_line(J, T, p, eol, lineno))

ParseLines(J, T, p, lineno) == line_at(J, T, p, pstrchrnul(T, p, NL), lineno)

(* parse_file(CRONTAB) on an empty table: the table afterwards. *)
parse_file(T) == ParseLines(<< >>, T, 1, 1)

----------------------------------------------------------------------------
(* Crontab files given to the daemon. *)

(* * 5 * * * x *)
TabStarMinute ==
    <<"*", " ", "5", " ", "*", " ", "*", " ", "*", " ", "x">>

(* 0-59 5 * * * x *)
TabFullMinute ==
    <<"0", "-", "5", "9", " ", "5", " ", "*", " ", "*", " ", "*", " ", "x">>

(* 0 * 1 * * x *)
TabStarHour ==
    <<"0", " ", "*", " ", "1", " ", "*", " ", "*", " ", "x">>

(* 0 0-23 1 * * x *)
TabFullHour ==
    <<"0", " ", "0", "-", "2", "3", " ", "1", " ", "*", " ", "*", " ", "x">>

(* 30 12 * * Mon x *)
TabStarMday ==
    <<"3", "0", " ", "1", "2", " ", "*", " ", "*", " ", "M", "o", "n", " ",
      "x">>

(* 30 12 1-31 * Mon x *)
TabFullMday ==
    <<"3", "0", " ", "1", "2", " ", "1", "-", "3", "1", " ", "*", " ", "M",
      "o", "n", " ", "x">>

(* * * 1 * Mon x *)
TabFirstOrMonday ==
    <<"*", " ", "*", " ", "1", " ", "*", " ", "M", "o", "n", " ", "x">>

(* * * 29 2 * x *)
TabFeb29 ==
    <<"*", " ", "*", " ", "2", "9", " ", "2", " ", "*", " ", "x">>

(* 30 2 29 2 * x *)
TabFeb29At0230 ==
    <<"3", "0", " ", "2", " ", "2", "9", " ", "2", " ", "*", " ", "x">>

(* 30 2 29 Feb * x *)
TabFeb29ByName ==
    <<"3", "0", " ", "2", " ", "2", "9", " ", "F", "e", "b", " ", "*", " ",
      "x">>

(* 0 0 31 2 * x *)
TabFeb31 ==
    <<"0", " ", "0", " ", "3", "1", " ", "2", " ", "*", " ", "x">>

(* 0 0 31 Feb * x *)
TabFeb31ByName ==
    <<"0", " ", "0", " ", "3", "1", " ", "F", "e", "b", " ", "*", " ", "x">>

(* */15 * * * * x *)
TabQuarterHour ==
    <<"*", "/", "1", "5", " ", "*", " ", "*", " ", "*", " ", "*", " ", "x">>

(* 0 9 * * Mon-Fri x *)
TabWeekdays ==
    <<"0", " ", "9", " ", "*", " ", "*", " ", "M", "o", "n", "-", "F", "r",
      "i", " ", "x">>

(* 0 0 31 Feb * x\n0,30 23 * * * y\n *)
TabTwoJobs ==
    <<"0", " ", "0", " ", "3", "1", " ", "F", "e", "b", " ", "*", " ", "x",
      "\n", "0", ",", "3", "0", " ", "2", "3", " ", "*", " ", "*", " ", "*",
      " ", "y", "\n">>

FireTabs ==
    {TabStarMinute, TabFullMinute, TabStarHour, TabFullHour, TabStarMday,
     TabFullMday, TabFirstOrMonday, TabFeb29, TabFeb29At0230, TabFeb29ByName,
     TabFeb31, TabFeb31ByName, TabQuarterHour, TabWeekdays, TabTwoJobs}

(* The instant of a local date and time, month counted from 1. *)
Instant(year, month, mday, hour, min, sec) ==
    mktime([tm_sec |-> sec, tm_min |-> min, tm_hour |-> hour, tm_mday |-> mday,
            tm_mon |-> month - 1, tm_year |-> year - 1900, tm_wday |-> 0])

FireAnchors ==
    {Instant(2023, 3, 1, 0, 0, 0),      \* a Wednesday in a non-leap year
     Instant(2024, 1, 1, 0, 0, 0),      \* a Monday and a 1st
     Instant(2024, 1, 1, 5, 57, 30),    \* not minute-aligned
     Instant(2024, 1, 1, 22, 30, 0),
     Instant(2024, 1, 8, 23, 57, 0),    \* a Monday, shortly before midnight
     Instant(2024, 2, 29, 23, 57, 0),
     Instant(2024, 3, 29, 23, 57, 0),
     Instant(2024, 6, 8, 10, 0, 0),     \* a Saturday
     Instant(2024, 12, 31, 23, 57, 0)}

(* How many times the fire-sequence harness feeds a fire time back. *)
MaxFires == 4

(* update_job looks at most MAX_LOOKAHEAD days ahead; the harness stops    *)
(* feeding back fire times that are this late.                             *)
TimeLimit == Instant(2030, 1, 1, 0, 0, 0)

----------------------------------------------------------------------------
(* The fire-sequence harness: parse a crontab, compute every job's fire    *)
(* time from an anchor, then keep feeding the closest job's fire time back *)
(* into update_job.                                                        *)

(* The pass taken upwards: for (i = 0; i < numJobs; ++i) update_job(i, now). *)
RECURSIVE update_up(_, _, _)
update_up(J, i, t) ==
    IF i >= Len(J) THEN J ELSE update_up(update_job(J, i, t), i + 1, t)

update_all_upwards(J, i, t) == update_up(J, 0, t)

(* for (i = numJobs - 1; i >= 0; --i) update_job(i, now); *)
RECURSIVE update_all(_, _, _)
update_all(J, i, t) ==
    IF i < 0 THEN J ELSE update_all(update_job(J, i, t), i - 1, t)

FireInit ==
    /\ text \in FireTabs
    /\ jobs = parse_file(text)
    /\ now \in FireAnchors
    /\ next = -1
    /\ hasZombies = 0
    /\ pc = "parsed"
    /\ clock = now
    /\ tv_sec = 0
    /\ procs = << >>
    /\ event = "NONE"
    /\ fork_pid = 0
    /\ fires = 0

FireFirst ==
    /\ pc = "parsed"
    /\ jobs' = update_all(jobs, Len(jobs) - 1, now)
    /\ next' = closest_job(jobs')
    /\ pc' = "fired"
    /\ fires' = 1
    /\ UNCHANGED <<text, now, hasZombies, clock, tv_sec, procs, event, fork_pid>>

FireAgain ==
    /\ pc = "fired"
    /\ next >= 0
    /\ fires < MaxFires
    /\ jobs[next + 1].time < TimeLimit
    /\ now' = jobs[next + 1].time
    /\ jobs' = update_job(jobs, next, jobs[next + 1].time)
    /\ next' = closest_job(jobs')
    /\ fires' = fires + 1
    /\ UNCHANGED <<text, hasZombies, pc, clock, tv_sec, procs, event, fork_pid>>

FireNext == FireFirst \/ FireAgain

SpecFire == FireInit /\ [][FireNext]_vars

(* One call update_job(idx, now) on the table as parsed. *)
UpdateOne(idx) ==
    /\ pc = "parsed"
    /\ jobs' = update_job(jobs, idx, now)
    /\ next' = idx
    /\ pc' = "updated"
    /\ UNCHANGED <<text, now, hasZombies, clock, tv_sec, procs, event, fork_pid,
                   fires>>

UpdateNext == \E idx \in 0 .. Len(jobs) - 1 : UpdateOne(idx)

SpecUpdate == FireInit /\ [][UpdateNext]_vars

----------------------------------------------------------------------------
(* The daemon: main, wait_for_event, run_job, reap_zombies and the SIGCHLD *)
(* handler, with the kernel's process table and the wall clock.            *)

(* * * * * * a\n*/2 * * * * b\n *)
TabEveryMinute ==
    <<"*", " ", "*", " ", "*", " ", "*", " ", "*", " ", "a", "\n", "*", "/",
      "2", " ", "*", " ", "*", " ", "*", " ", "*", " ", "b", "\n">>

(* 0 0 31 Feb * c\n* * * * * a\n *)
TabWithFeb31 ==
    <<"0", " ", "0", " ", "3", "1", " ", "F", "e", "b", " ", "*", " ", "c",
      "\n", "*", " ", "*", " ", "*", " ", "*", " ", "*", " ", "a", "\n">>

(* An absent or empty crontab. *)
TabNone == << >>

(* 1 0 29 Feb * d\n0 12 * * * e\n *)
TabLeapDay ==
    <<"1", " ", "0", " ", "2", "9", " ", "F", "e", "b", " ", "*", " ", "d",
      "\n", "0", " ", "1", "2", " ", "*", " ", "*", " ", "*", " ", "e", "\n">>

DaemonTabs == {TabEveryMinute, TabWithFeb31, TabNone, TabLeapDay}

(* When the daemon starts, and how far the wall clock may get. The crontab *)
(* TabLeapDay is run on 2096-02-29, the last February 29 before 2100,      *)
(* which is not a leap year; the others on 2024-01-01.                     *)
DaemonStart == Instant(2024, 1, 1, 0, 0, 30)
StartOf(T) ==
    IF T = TabLeapDay THEN Instant(2096, 2, 29, 0, 0, 30) ELSE DaemonStart
Horizon == 150
MinClock(T) == StartOf(T) - 3600
MaxClock(T) == StartOf(T) + CATCHUP_LIMIT * 60 + Horizon

(* How many children the kernel lets the daemon have at a time. *)
MaxPids == 3

(* How far the wall clock is from where a completed sleep should have left *)
(* it: on time, set forward by the catch-up limit or one second more, set  *)
(* back by an hour.                                                        *)
ClockJumps == {0, CATCHUP_LIMIT * 60, CATCHUP_LIMIT * 60 + 1, -3600}

(* How long a wait has lasted when a signal interrupts it. *)
SleptParts == {0, 30}

NoProc == [st |-> "none", lineno |-> 0]

Zombies(P) == {p \in DOMAIN P : P[p].st = "zombie"}

(* fork(): the new child's pid, or -1. *)
fork(P, ok) ==
    IF ok /\ \E p \in DOMAIN P : P[p].st = "none"
    THEN SetMin({p \in DOMAIN P : P[p].st = "none"})
    ELSE -1

(* The same with jobs[idx].pid = pid done for every result of fork(). *)
run_job_forked_always_stores(J, idx, P, pid) ==
    [jobs  |-> [J EXCEPT ![idx + 1].pid = pid],
     procs |-> IF pid = -1 THEN P
               ELSE [P EXCEPT ![pid] = [st |-> "running",
                                        lineno |-> J[idx + 1].lineno]],
     pid   |-> pid]

(* run_job, lines 541-560: pid is what fork() returned. *)
run_job_forked(J, idx, P, pid) ==
    IF pid = -1 THEN [jobs |-> J, procs |-> P, pid |-> -1]
    ELSE [jobs  |-> [J EXCEPT ![idx + 1].pid = pid],
          procs |-> [P EXCEPT ![pid] = [st |-> "running",
                                        lineno |-> J[idx + 1].lineno]],
          pid   |-> pid]

(* run_job without the test of line 536. *)
run_job_unguarded(J, idx, P, ok) == run_job_forked(J, idx, P, fork(P, ok))

(* run_job(idx): the table, the kernel's processes and fork's result. *)
run_job(J, idx, P, ok) ==
    IF J[idx + 1].pid # 0 THEN [jobs |-> J, procs |-> P, pid |-> 0]
    ELSE run_job_forked(J, idx, P, fork(P, ok))

(* reap_zombies, lines 605-611: allow the returning job to be run again. *)
clear_pid(J, pid) ==
    IF \E i \in 1 .. Len(J) : J[i].pid = pid
    THEN [J EXCEPT ![SetMin({i \in 1 .. Len(J) : J[i].pid = pid})].pid = 0]
    ELSE J

(* The comparison of line 580 with < for <=. *)
within_catchup_strict(t, target) == t - target < CATCHUP_LIMIT * 60

(* Line 580: *now - *target <= (CATCHUP_LIMIT) * 60 *)
within_catchup(t, target) == t - target <= CATCHUP_LIMIT * 60

Init ==
    /\ text \in DaemonTabs
    /\ jobs = parse_file(text)
    /\ clock = StartOf(text)
    /\ now = clock
    /\ next = -1
    /\ hasZombies = 0
    /\ pc = "restart"
    /\ tv_sec = 0
    /\ procs = [p \in 1 .. MaxPids |-> NoProc]
    /\ event = "NONE"
    /\ fork_pid = 0
    /\ fires = 0

(* restart: lines 646-648. *)
Restart ==
    /\ pc = "restart"
    /\ jobs' = update_all(jobs, Len(jobs) - 1, now)
    /\ next' = closest_job(jobs')
    /\ pc' = "test"
    /\ UNCHANGED <<text, now, hasZombies, clock, tv_sec, procs, event, fork_pid,
                   fires>>

(* Line 650: if (hasZombies). *)
TestZombies ==
    /\ pc = "test"
    /\ pc' = IF hasZombies # 0 THEN "reap" ELSE "wait"
    /\ UNCHANGED <<text, jobs, now, next, hasZombies, clock, tv_sec, procs, event,
                   fork_pid, fires>>

(* reap_zombies: waitpid(-1, &status, WNOHANG) returns the zombie p. *)
ReapChild(p) ==
    /\ pc = "reap"
    /\ procs[p].st = "zombie"
    /\ procs' = [procs EXCEPT ![p] = NoProc]
    /\ jobs' = clear_pid(jobs, p)
    /\ UNCHANGED <<text, now, next, hasZombies, pc, clock, tv_sec, event, fork_pid,
                   fires>>

(* reap_zombies: waitpid finds no zombie and the loop ends. *)
ReapDone ==
    /\ pc = "reap"
    /\ Zombies(procs) = {}
    /\ pc' = "clear"
    /\ UNCHANGED <<text, jobs, now, next, hasZombies, clock, tv_sec, procs, event,
                   fork_pid, fires>>

(* Line 652: hasZombies = 0. *)
ClearZombies ==
    /\ pc = "clear"
    /\ hasZombies' = 0
    /\ pc' = "wait"
    /\ UNCHANGED <<text, jobs, now, next, clock, tv_sec, procs, event, fork_pid,
                   fires>>

(* wait_for_event with no job: pause(). *)
Pause ==
    /\ pc = "wait"
    /\ next < 0
    /\ pc' = "pause"
    /\ UNCHANGED <<text, jobs, now, next, hasZombies, clock, tv_sec, procs, event,
                   fork_pid, fires>>

(* The same without the test of line 571, *target > *now. *)
Sleep_when_due ==
    /\ pc = "wait"
    /\ next >= 0
    /\ tv_sec' = MIN(jobs[next + 1].time - now, WAKEUP_PERIOD * 60)
    /\ pc' = "sleep"
    /\ UNCHANGED <<text, jobs, now, next, hasZombies, clock, procs, event,
                   fork_pid, fires>>

(* wait_for_event with the target in the future: nanosleep() begins. *)
Sleep ==
    /\ pc = "wait"
    /\ next >= 0
    /\ jobs[next + 1].time > now
    /\ tv_sec' = MIN(jobs[next + 1].time - now, WAKEUP_PERIOD * 60)
    /\ pc' = "sleep"
    /\ UNCHANGED <<text, jobs, now, next, hasZombies, clock, procs, event,
                   fork_pid, fires>>

(* nanosleep() returns 0; time(now); lines 576-578 and the switch. *)
SleepReturns(jump) ==
    /\ pc = "sleep"
    /\ clock + tv_sec + jump >= MinClock(text)
    /\ clock + tv_sec + jump <= MaxClock(text)
    /\ clock' = clock + tv_sec + jump
    /\ now' = clock'
    /\ event' = IF now' < now THEN "TIME_CHANGED" ELSE "NOTHING_HAPPENED"
    /\ pc' = IF now' < now THEN "restart" ELSE "test"
    /\ UNCHANGED <<text, jobs, next, hasZombies, tv_sec, procs, fork_pid, fires>>

(* The table after update_job(next, now) and the closest job in it. *)
Reschedule ==
    /\ jobs' = update_job(jobs, next, now)
    /\ next' = closest_job(jobs')

(* REACHED_TARGET: run_job(next); update_job(next, now); closest_job(). *)
TargetReached(ok) ==
    /\ pc = "wait"
    /\ next >= 0
    /\ jobs[next + 1].time <= now
    /\ within_catchup(now, jobs[next + 1].time)
    /\ event' = "REACHED_TARGET"
    /\ procs' = run_job(jobs, next, procs, ok).procs
    /\ fork_pid' = run_job(jobs, next, procs, ok).pid
    /\ jobs' = update_job(run_job(jobs, next, procs, ok).jobs, next, now)
    /\ next' = closest_job(jobs')
    /\ pc' = "test"
    /\ UNCHANGED <<text, now, hasZombies, clock, tv_sec, fires>>

(* SKIPPED_TARGET: update_job(next, now); closest_job(). *)
TargetSkipped ==
    /\ pc = "wait"
    /\ next >= 0
    /\ jobs[next + 1].time <= now
    /\ ~within_catchup(now, jobs[next + 1].time)
    /\ event' = "SKIPPED_TARGET"
    /\ fork_pid' = 0
    /\ Reschedule
    /\ pc' = "test"
    /\ UNCHANGED <<text, now, hasZombies, clock, tv_sec, procs, fires>>

(* The child p exits: it becomes a zombie and SIGCHLD runs sigchld_handler. *)
(* A nanosleep() or pause() in progress returns -1 after having lasted for  *)
(* `slept` seconds, and wait_for_event returns CAUGHT_SIGNAL.               *)
ChildExits(p, slept) ==
    /\ pc # "dead"
    /\ procs[p].st = "running"
    /\ procs' = [procs EXCEPT ![p].st = "zombie"]
    /\ hasZombies' = 1
    /\ IF pc \in {"sleep", "pause"}
       THEN /\ pc = "sleep" => slept < tv_sec
            /\ clock + slept <= MaxClock(text)
            /\ clock' = clock + slept
            /\ event' = "CAUGHT_SIGNAL"
            /\ pc' = "test"
       ELSE /\ slept = 0
            /\ UNCHANGED <<clock, event, pc>>
    /\ UNCHANGED <<text, jobs, now, next, tv_sec, fork_pid, fires>>

(* SIGHUP is delivered. main installs a handler for SIGCHLD only (line      *)
(* 637), so SIGHUP keeps its default action: the process is terminated.    *)
Sighup ==
    /\ pc # "dead"
    /\ pc' = "dead"
    /\ UNCHANGED <<text, jobs, now, next, hasZombies, clock, tv_sec, procs, event,
                   fork_pid, fires>>

Next ==
    \/ Restart
    \/ TestZombies
    \/ \E p \in 1 .. MaxPids : ReapChild(p)
    \/ ReapDone
    \/ ClearZombies
    \/ Pause
    \/ Sleep
    \/ \E jump \in ClockJumps : SleepReturns(jump)
    \/ \E ok \in BOOLEAN : TargetReached(ok)
    \/ TargetSkipped
    \/ \E p \in 1 .. MaxPids : \E slept \in SleptParts : ChildExits(p, slept)
    \/ Sighup

Spec == Init /\ [][Next]_vars

----------------------------------------------------------------------------
(* Reading crontab files: parse_file on files made of accepted, rejected,  *)
(* comment and empty lines.                                                *)

(* * * * * * a *)
LineStar ==
    <<"*", " ", "*", " ", "*", " ", "*", " ", "*", " ", "a">>

(* 0-30/10 1,2 */15 Jan-Mar mon,7 b *)
LineLists ==
    <<"0", "-", "3", "0", "/", "1", "0", " ", "1", ",", "2", " ", "*", "/",
      "1", "5", " ", "J", "a", "n", "-", "M", "a", "r", " ", "m", "o", "n",
      ",", "7", " ", "b">>

(* 60 * * * * x *)
LineAboveMax ==
    <<"6", "0", " ", "*", " ", "*", " ", "*", " ", "*", " ", "x">>

(* * * 0 * * x *)
LineBelowMin ==
    <<"*", " ", "*", " ", "0", " ", "*", " ", "*", " ", "x">>

(* 5-3 * * * * x *)
LineBackwards ==
    <<"5", "-", "3", " ", "*", " ", "*", " ", "*", " ", "*", " ", "x">>

(* */0 * * * * x *)
LineStepZero ==
    <<"*", "/", "0", " ", "*", " ", "*", " ", "*", " ", "*", " ", "x">>

(* * * * * *x *)
LineNoSeparator ==
    <<"*", " ", "*", " ", "*", " ", "*", " ", "*", "x">>

(* * * * * *  *)
LineNoCommand ==
    <<"*", " ", "*", " ", "*", " ", "*", " ", "*", " ">>

(* # * * * * * a *)
LineComment ==
    <<"#", " ", "*", " ", "*", " ", "*", " ", "*", " ", "*", " ", "a">>

(* an empty line *)
LineEmpty ==
    << >>

GoodLines == {LineStar, LineLists}

(* Rejected: a value above max, a value below min, first > last, step < 1, *)
(* no blank after the fifth field, no command.                             *)
BadLines ==
    {LineAboveMax, LineBelowMin, LineBackwards, LineStepZero,
     LineNoSeparator, LineNoCommand}

SkippedLines == {LineComment, LineEmpty}

FileLines == GoodLines \cup BadLines \cup SkippedLines

(* The file of the given lines, each ended by a newline. *)
RECURSIVE FileOf(_)
FileOf(ls) ==
    IF Len(ls) = 0 THEN << >>
    ELSE Head(ls) \o <<NL>> \o FileOf(Tail(ls))

(* The same file without the newline at its end. *)
Unterminated(T) == SubSeq(T, 1, Len(T) - 1)

MaxFileLines == 3

LineSeqs == UNION {[1 .. n -> FileLines] : n \in 1 .. MaxFileLines}

ParseTabs ==
    {FileOf(ls) : ls \in LineSeqs} \cup {Unterminated(FileOf(ls)) : ls \in LineSeqs}

(* The daemon before parse_file(CRONTAB), line 642, for a crontab of Tabs. *)
LoadInit(Tabs) ==
    /\ text \in Tabs
    /\ jobs = << >>
    /\ pc = "start"
    /\ now = 0
    /\ clock = 0
    /\ next = -1
    /\ hasZombies = 0
    /\ tv_sec = 0
    /\ procs = << >>
    /\ event = "NONE"
    /\ fork_pid = 0
    /\ fires = 0

ParseInit == LoadInit(ParseTabs)

(* parse_file(CRONTAB). *)
ParseFile ==
    /\ pc = "start"
    /\ jobs' = parse_file(text)
    /\ pc' = "loaded"
    /\ UNCHANGED <<text, now, next, hasZombies, clock, tv_sec, procs, event,
                   fork_pid, fires>>

ParseNext == ParseFile

SpecParse == ParseInit /\ [][ParseNext]_vars

(* One-line crontabs `* * * * * ` + command, for every command of up to    *)
(* MaxCommandLen characters out of a, b, percent and backslash.            *)
FiveStars == <<"*", " ", "*", " ", "*", " ", "*", " ", "*", " ">>

CommandChars == {"a", "b", "%", "\\"}

MaxCommandLen == 3

Commands == UNION {[1 .. n -> CommandChars] : n \in 1 .. MaxCommandLen}

CommandTabs == {FiveStars \o c \o <<NL>> : c \in Commands}

CommandInit == LoadInit(CommandTabs)

SpecCommand == CommandInit /\ [][ParseNext]_vars

(* One-line crontabs `* * * * ` + weekday field + ` x`, the field being    *)
(* one or two of WdayItems, separated by a comma.                          *)
FourStars == <<"*", " ", "*", " ", "*", " ", "*", " ">>

WdayItems ==
    {<<"s", "u", "n">>, <<"S", "u", "n">>, <<"S", "U", "N">>, <<"0">>, <<"7">>,
     <<"m", "o", "n">>, <<"6">>, <<"1", "-", "5">>, <<"5", "-", "7">>,
     <<"*", "/", "7">>}

WdayFields == WdayItems \cup {a \o <<",">> \o b : a \in WdayItems, b \in WdayItems}

WdayTabs == {FourStars \o f \o <<" ", "x", NL>> : f \in WdayFields}

WdayInit == LoadInit(WdayTabs)

SpecWday == WdayInit /\ [][ParseNext]_vars

----------------------------------------------------------------------------
(* What the claims about fire times are stated with. *)

(* The broken-down time tm passes every mask of job. *)
PassesTm(job, tm) ==
    /\ tm.tm_min \in job.minutes \cap (0 .. 59)
    /\ tm.tm_hour \in job.hours \cap (0 .. 23)
    /\ VALID_DATE(job, tm.tm_mday, tm.tm_wday, tm.tm_mon)

(* The instant t is a firing instant of job. *)
Passes(job, t) == PassesTm(job, localtime_r(t))

(* The day D days after EpochDay passes the date masks of job. *)
DayPasses(job, D) ==
    VALID_DATE(job, CivilFromDays(EpochDay + D).mday, (EpochDay + D + 4) % 7,
               CivilFromDays(EpochDay + D).mon)

(* Some minute of day D strictly between the instants a and b is a firing  *)
(* instant of job.                                                         *)
DayFiresBetween(job, D, a, b) ==
    /\ DayPasses(job, D)
    /\ \E h \in job.hours \cap (0 .. 23) : \E m \in job.minutes \cap (0 .. 59) :
          /\ a < D * 86400 + h * 3600 + m * 60
          /\ D * 86400 + h * 3600 + m * 60 < b

(* No minute-aligned instant strictly between a and b is a firing instant. *)
NoFiringBetween(job, a, b) ==
    \A D \in (a \div 86400) .. (b \div 86400) : ~DayFiresBetween(job, D, a, b)

(* None of the MAX_LOOKAHEAD days after the day of t passes the date masks. *)
NoValidDayWithin(job, t) ==
    \A k \in 1 .. MAX_LOOKAHEAD : ~DayPasses(job, (t \div 86400) + k)

(* The job of crontab line lineno in table J, and whether there is one. *)
HasLine(J, lineno) == \E k \in 1 .. Len(J) : J[k].lineno = lineno
JobOfLine(J, lineno) == J[CHOOSE k \in 1 .. Len(J) : J[k].lineno = lineno]

(* The indices (from 1) of the jobs a step of the harness calls update_job *)
(* on: all of them in FireFirst, the closest one in FireAgain.             *)
UpdatedInStep == IF pc = "parsed" THEN 1 .. Len(jobs) ELSE {next + 1}

FireStep == pc' = "fired" /\ fires' # fires

(* C1: every job left in the table by update_job has a fire time whose     *)
(* local minute, hour, day of month, weekday and month pass all of the     *)
(* job's masks.                                                            *)
C1_FireTimePassesMasks ==
    pc = "fired" => \A i \in 1 .. Len(jobs) : Passes(jobs[i], jobs[i].time)

(* What update_job(idx, t) on job must have left in table J2. *)
UpdateSkipsNothing(job, t, J2) ==
    IF HasLine(J2, job.lineno)
    THEN /\ JobOfLine(J2, job.lineno).time > t
         /\ NoFiringBetween(job, t, JobOfLine(J2, job.lineno).time)
    ELSE NoValidDayWithin(job, t)

(* C2: update_job(idx, now) either removes the job, and then none of the   *)
(* MAX_LOOKAHEAD days after now is a valid day, or stores a time strictly  *)
(* greater than now with no firing instant of the job strictly between now *)
(* and that time.                                                          *)
C2_NoFiringSkipped ==
    [][FireStep =>
         \A i \in UpdatedInStep : UpdateSkipsNothing(jobs[i], now', jobs')]_vars

(* The day axis was taken and the job kept: the fire time is more than a   *)
(* day after the instant given.                                            *)
C2_Witness ==
    /\ pc = "fired"
    /\ fires >= 2
    /\ next >= 0
    /\ jobs[next + 1].time > now + 86400
    /\ text = TabWeekdays

(* The job is gone from table J2 or its time there is later than t. *)
UpdateIncreases(job, t, J2) ==
    HasLine(J2, job.lineno) => JobOfLine(J2, job.lineno).time > t

(* C3: update_job never stores a time less than or equal to the instant it *)
(* was given, so feeding a job's fire time back gives a strictly           *)
(* increasing sequence of fire times.                                      *)
C3_MonotoneNextFire ==
    [][FireStep =>
         /\ \A i \in UpdatedInStep : UpdateIncreases(jobs[i], now', jobs')
         /\ pc = "fired" => UpdateIncreases(jobs[next + 1], jobs[next + 1].time, jobs')]_vars

(* A fire time was fed back at least twice and the job is still there. *)
C3_Witness ==
    /\ pc = "fired"
    /\ fires >= 3
    /\ next >= 0
    /\ jobs[next + 1].time > now

(* The day D days after EpochDay is the 1st of a month or a Monday. *)
FirstOrMonday(D) ==
    CivilFromDays(EpochDay + D).mday = 1 \/ (EpochDay + D + 4) % 7 = 1

(* C6: the job of `* * 1 * Mon` fires on a day exactly when that day is    *)
(* the 1st of a month or a Monday: every fire time lies on such a day, and *)
(* no such day lies strictly between the day of the instant given and the  *)
(* day of the fire time.                                                   *)
C6_FiresExactlyOnFirstOrMonday ==
    (pc = "fired" /\ text = TabFirstOrMonday /\ Len(jobs) = 1) =>
        /\ FirstOrMonday(jobs[1].time \div 86400)
        /\ \A D \in ((now \div 86400) + 1) .. ((jobs[1].time \div 86400) - 1) :
              ~FirstOrMonday(D)

(* The crontab with the explicit full range for the bare star of T. *)
FullRangeTwin(T) ==
    IF T = TabStarMinute THEN TabFullMinute
    ELSE IF T = TabStarHour THEN TabFullHour
    ELSE TabFullMday

(* C7: a bare `*` in the minute, hour or day-of-month field gives the same *)
(* fire time as the explicit full range (0-59, 0-23, 1-31) in that field,  *)
(* from every instant.                                                     *)
C7_StarSameAsFullRange ==
    (/\ pc = "fired"
     /\ text \in {TabStarMinute, TabStarHour, TabStarMday}
     /\ Len(jobs) = 1) =>
        jobs[1].time = update_job(parse_file(FullRangeTwin(text)), 0, now)[1].time

(* The day D days after EpochDay is a February 29. *)
IsFeb29(D) ==
    CivilFromDays(EpochDay + D).mon = 1 /\ CivilFromDays(EpochDay + D).mday = 29

(* C8: the jobs of `* * 29 2 *` and `30 2 29 2 *` fire on February 29 only, *)
(* and on the first February 29 after the instant given.                   *)
C8_FiresOnFeb29Only ==
    (pc = "fired" /\ text \in {TabFeb29, TabFeb29At0230} /\ Len(jobs) = 1) =>
        /\ IsFeb29(jobs[1].time \div 86400)
        /\ \A D \in ((now \div 86400) + 1) .. ((jobs[1].time \div 86400) - 1) :
              ~IsFeb29(D)

(* C9: the job of `0 0 31 2 *` is removed from the table by its first      *)
(* update_job.                                                             *)
C9_Feb31Evicted ==
    (pc = "fired" /\ text = TabFeb31) => Len(jobs) = 0

----------------------------------------------------------------------------
(* Claims about the daemon. *)

(* The children forked for the job of crontab line lineno that have not    *)
(* been reaped yet.                                                        *)
ChildrenOf(P, lineno) ==
    {p \in DOMAIN P : P[p].st # "none" /\ P[p].lineno = lineno}

(* A step in which fork() made a new child. *)
Forked == \E p \in DOMAIN procs : procs[p].st = "none" /\ procs'[p].st = "running"

(* A step that dispatches a target that is not in the future. *)
Dispatch ==
    pc = "wait" /\ next >= 0 /\ jobs[next + 1].time <= now /\ pc' = "test"

(* C4: no exit notification of a child is lost: whenever a wait of the    *)
(* daemon (nanosleep or pause) returns while an exited child is still      *)
(* unreaped, the hasZombies flag is set, so that the loop reaps the child  *)
(* and resets the pid of its job without any further signal.               *)
C4_NoLostExit ==
    [][(pc \in {"sleep", "pause"} /\ pc' = "test" /\ Zombies(procs') # {})
         => hasZombies' = 1]_vars

(* No job of the table has two unreaped children. *)
AtMostOneChild ==
    \A i \in 1 .. Len(jobs) : Cardinality(ChildrenOf(procs, jobs[i].lineno)) <= 1

(* C5: at most one unreaped child per job, a child is forked for a job     *)
(* only when that job's pid is 0, and a job that is due while its pid is   *)
(* not 0 is skipped: no fork, and the pid stays.                           *)
C5_OneChildPerJob ==
    /\ []AtMostOneChild
    /\ [][/\ Forked => jobs[next + 1].pid = 0
          /\ (Dispatch /\ jobs[next + 1].pid # 0) =>
                /\ procs' = procs
                /\ HasLine(jobs', jobs[next + 1].lineno)
                /\ JobOfLine(jobs', jobs[next + 1].lineno).pid = jobs[next + 1].pid]_vars

(* A job was due while its previous child was still there, and was skipped. *)
C5_Witness ==
    /\ event = "REACHED_TARGET"
    /\ fork_pid = 0
    /\ pc = "test"
    /\ \E i \in 1 .. Len(jobs) : jobs[i].pid # 0

(* C10: a target that is not in the future is dispatched as reached        *)
(* exactly when now - target <= CATCHUP_LIMIT * 60 and as skipped          *)
(* otherwise; when skipped, no child is forked; when reached with the job  *)
(* idle, fork() is called for it. Either way the job then is out of the    *)
(* table (lookahead) or has a fire time > now, and next is a job with the  *)
(* minimum fire time.                                                      *)
C10_CatchUpLimit ==
    [][Dispatch =>
         /\ event' = IF now - jobs[next + 1].time <= CATCHUP_LIMIT * 60
                     THEN "REACHED_TARGET" ELSE "SKIPPED_TARGET"
         /\ event' = "SKIPPED_TARGET" => (procs' = procs /\ fork_pid' = 0)
         /\ (event' = "REACHED_TARGET" /\ jobs[next + 1].pid = 0) =>
               /\ fork_pid' # 0
               /\ fork_pid' > 0 => /\ Forked
                                   /\ procs'[fork_pid'].lineno = jobs[next + 1].lineno
         /\ HasLine(jobs', jobs[next + 1].lineno) =>
               JobOfLine(jobs', jobs[next + 1].lineno).time > now
         /\ IF Len(jobs') = 0 THEN next' = -1
            ELSE /\ next' \in 0 .. Len(jobs') - 1
                 /\ \A k \in 1 .. Len(jobs') : jobs'[next' + 1].time <= jobs'[k].time]_vars

(* A job was run with its fire time exactly CATCHUP_LIMIT minutes ago. *)
C10_Witness ==
    /\ event = "REACHED_TARGET"
    /\ pc = "test"
    /\ fork_pid > 0
    /\ \E i \in 1 .. Len(jobs) :
          /\ jobs[i].pid = fork_pid
          /\ jobs[i].time = now + 60
          /\ now = DaemonStart + 30 + CATCHUP_LIMIT * 60

(* C11: on SIGHUP the daemon keeps running and reloads: the table is the   *)
(* crontab parsed again with every fire time computed from the current     *)
(* time, and the loop goes on with the closest job of the new table.       *)
C11_SighupReloads ==
    [][Sighup =>
         /\ pc' \in {"restart", "test"}
         /\ \/ jobs' = parse_file(text)
            \/ jobs' = update_all(parse_file(text), Len(parse_file(text)) - 1, clock)
         /\ pc' = "test" => next' = closest_job(jobs')]_vars

----------------------------------------------------------------------------
(* Claims about the parser. *)

(* The lines of the file T: what lies between its newlines. *)
RECURSIVE LinesFrom(_, _, _)
LinesFrom(T, i, line) ==
    IF i > Len(T) THEN <<line>>
    ELSE IF T[i] = NL THEN <<line>> \o LinesFrom(T, i + 1, << >>)
    ELSE LinesFrom(T, i + 1, Append(line, T[i]))

LinesOf(T) == LinesFrom(T, 1, << >>)

(* The numbers of the lines of T that are jobs. *)
GoodLineNumbers(T) ==
    {k \in 1 .. Len(LinesOf(T)) : LinesOf(T)[k] \in GoodLines}

(* C12: the table after parse_file holds exactly one job for each accepted *)
(* line, in the order of the lines and with the line's number; rejected,   *)
(* comment and empty lines add nothing; and each job is what its line      *)
(* gives when it stands alone in the file, whatever came before it.        *)
C12_ParseErrorsPerLine ==
    pc = "loaded" =>
        /\ Len(jobs) = Cardinality(GoodLineNumbers(text))
        /\ \A i \in 1 .. Len(jobs) : jobs[i].lineno \in GoodLineNumbers(text)
        /\ \A i \in 1 .. Len(jobs) : \A k \in 1 .. Len(jobs) :
              i < k => jobs[i].lineno < jobs[k].lineno
        /\ \A i \in 1 .. Len(jobs) :
              /\ Len(parse_file(LinesOf(text)[jobs[i].lineno])) = 1
              /\ [jobs[i] EXCEPT !.lineno = 1]
                    = parse_file(LinesOf(text)[jobs[i].lineno])[1]

(* A rejected line, then an accepted one, then a rejected one: one job,    *)
(* of line 2.                                                              *)
C12_Witness ==
    /\ pc = "loaded"
    /\ Len(LinesOf(text)) >= 3
    /\ LinesOf(text)[1] = LineAboveMax
    /\ LinesOf(text)[2] = LineLists
    /\ LinesOf(text)[3] \in BadLines
    /\ Len(jobs) = 1
    /\ jobs[1].lineno = 2

(* The rest of the one line of T after its five fields, without the newline. *)
CommandText(T) == SubSeq(T, Len(FiveStars) + 1, Len(T) - 1)

(* The positions of the percent signs of c not preceded by a backslash. *)
BarePercents(c) ==
    {i \in 1 .. Len(c) : c[i] = "%" /\ ~(i > 1 /\ c[i - 1] = "\\")}

(* c up to its first percent sign that is not preceded by a backslash. *)
BeforeBarePercent(c) ==
    IF BarePercents(c) = {} THEN c ELSE SubSeq(c, 1, SetMin(BarePercents(c)) - 1)

(* c without the backslashes that stand right before a percent sign. *)
RECURSIVE Unescaped(_, _)
Unescaped(c, i) ==
    IF i > Len(c) THEN << >>
    ELSE IF c[i] = "\\" /\ i < Len(c) /\ c[i + 1] = "%" THEN Unescaped(c, i + 1)
    ELSE <<c[i]>> \o Unescaped(c, i + 1)

WdayField(T) == SubSeq(T, Len(FourStars) + 1, Len(T) - 3)

(* The ways the claim names of writing Sunday. *)
SundayFields ==
    {<<"s", "u", "n">>, <<"S", "u", "n">>, <<"S", "U", "N">>, <<"0">>, <<"7">>}

(* C14: sun, Sun, SUN, 0 and 7 all give the wdays mask with only bit 0     *)
(* set, and after parsing any line the wdays mask has no bit outside 0..6. *)
C14_SundayFolded ==
    pc = "loaded" =>
        /\ Len(jobs) = 1
        /\ jobs[1].wdays \subseteq 0 .. 6
        /\ WdayField(text) \in SundayFields => jobs[1].wdays = {0}

----------------------------------------------------------------------------
(* Further claims about the job table and the daemon. *)

(* C15: every job in the table, after parsing and through every update,    *)
(* eviction, run and reap, has minutes, hours and months not zero and      *)
(* mdays or wdays not zero.                                                *)
C15_MasksNotZero ==
    \A i \in 1 .. Len(jobs) :
        /\ jobs[i].minutes # {}
        /\ jobs[i].hours # {}
        /\ jobs[i].months # {}
        /\ (jobs[i].mdays # {} \/ jobs[i].wdays # {})

(* One job was evicted, the other has been run and its child reaped. *)
C15_Witness ==
    /\ text = TabWithFeb31
    /\ Len(jobs) = 1
    /\ pc = "reap"
    /\ jobs[1].pid = 0
    /\ jobs[1].time > DaemonStart + 60
    /\ Zombies(procs) = {}

(* C16: the timed wait is computed from the current clock: a nanosleep in  *)
(* progress was started for at most min(target - current time,             *)
(* WAKEUP_PERIOD * 60) seconds, so that it does not last beyond the fire   *)
(* time of the selected job, also after a wait cut short by a signal.      *)
C16_TimeoutFromCurrentClock ==
    pc = "sleep" =>
        tv_sec <= MIN(jobs[next + 1].time - clock, WAKEUP_PERIOD * 60)

(* What update_job(idx, t) must have made of table J into J2 when its      *)
(* search ended with r: the loop has ended, after at most MAX_LOOKAHEAD    *)
(* day-advances; either on a valid date, with only the time of job idx     *)
(* written; or by the counter, with slot idx overwritten by the last job,  *)
(* the table one shorter and nothing else changed.                         *)
UpdateEnded(J, idx, t, r, J2) ==
    /\ r.st \in {"finished", "evicted"}
    /\ r.st = "finished" =>
          /\ r.lookahead <= MAX_LOOKAHEAD
          /\ VALID_DATE(J[idx + 1], r.tm.tm_mday, r.tm.tm_wday, r.tm.tm_mon)
          /\ Len(J2) = Len(J)
          /\ J2 = [J EXCEPT ![idx + 1].time = J2[idx + 1].time]
          /\ J2[idx + 1].time > t
    /\ r.st = "evicted" =>
          /\ r.lookahead = MAX_LOOKAHEAD + 1
          /\ NoValidDayWithin(J[idx + 1], t)
          /\ Len(J2) = Len(J) - 1
          /\ \A k \in 1 .. Len(J2) :
                J2[k] = IF k = idx + 1 THEN J[Len(J)] ELSE J[k]

(* C17: update_job always terminates, after at most MAX_LOOKAHEAD          *)
(* day-advances: with VALID_DATE true and the time written, or with the    *)
(* job removed (its slot overwritten by the last job, the count one less), *)
(* no time written and no other job changed.                               *)
C17_UpdateTerminates ==
    [][pc' = "updated" =>
         UpdateEnded(jobs, next', now, find_tm(jobs[next' + 1], now), jobs')]_vars

(* The first of two jobs was removed and the last job took its slot. *)
C17_Witness ==
    /\ pc = "updated"
    /\ text = TabTwoJobs
    /\ next = 0
    /\ Len(jobs) = 1
    /\ jobs[1].lineno = 2
    /\ jobs[1].time = 0

(* Job `job` of the table before the pass is, in table J2, what            *)
(* update_job makes of it from t: gone when the lookahead is exceeded,     *)
(* else there with the fire time computed from t.                          *)
Recalculated(job, t, r, J2) ==
    IF r.st = "evicted" THEN ~HasLine(J2, job.lineno)
    ELSE /\ HasLine(J2, job.lineno)
         /\ JobOfLine(J2, job.lineno) = [job EXCEPT !.time = mktime(r.tm)]

(* C18: after the recalculation pass with current time now (at startup and *)
(* after the clock was set back) every job still in the table has had      *)
(* update_job applied with that now, so that its time is > now, also when  *)
(* jobs are evicted during the pass; and next is a job of minimum time.    *)
C18_RecalculationCoversAll ==
    [][(pc = "restart" /\ pc' = "test") =>
         /\ \A i \in 1 .. Len(jobs) :
               Recalculated(jobs[i], now, find_tm(jobs[i], now), jobs')
         /\ \A k \in 1 .. Len(jobs') :
               /\ jobs'[k].time > now
               /\ \E i \in 1 .. Len(jobs) : jobs[i].lineno = jobs'[k].lineno
         /\ IF Len(jobs') = 0 THEN next' = -1
            ELSE /\ next' \in 0 .. Len(jobs') - 1
                 /\ \A k \in 1 .. Len(jobs') : jobs'[next' + 1].time <= jobs'[k].time]_vars

(* The pass at startup evicted the first job and the job moved into its    *)
(* slot has its fire time.                                                 *)
C18_Witness ==
    /\ text = TabWithFeb31
    /\ pc = "test"
    /\ event = "NONE"
    /\ Len(jobs) = 1
    /\ jobs[1].lineno = 2
    /\ jobs[1].time = DaemonStart + 30
    /\ next = 0

(* C19: a fork failure in run_job is recovered locally: no child is made,  *)
(* the job's pid stays 0, the job gets its next fire time after now from   *)
(* update_job as after a launch, no other job changes, and the main loop   *)
(* goes on with the closest job.                                           *)
C19_ForkFailureRecovered ==
    [][(Dispatch /\ fork_pid' = -1) =>
         /\ jobs[next + 1].pid = 0
         /\ procs' = procs
         /\ Recalculated(jobs[next + 1], now, find_tm(jobs[next + 1], now), jobs')
         /\ \A i \in 1 .. Len(jobs) :
               i # next + 1 =>
                   /\ HasLine(jobs', jobs[i].lineno)
                   /\ JobOfLine(jobs', jobs[i].lineno) = jobs[i]
         /\ \A k \in 1 .. Len(jobs') :
               jobs'[k].lineno = jobs[next + 1].lineno => jobs'[k].time > now
         /\ pc' = "test"
         /\ next' = closest_job(jobs')]_vars

(* fork() has just failed for a job, which is idle and scheduled again. *)
C19_Witness ==
    /\ pc = "test"
    /\ event = "REACHED_TARGET"
    /\ fork_pid = -1
    /\ text = TabEveryMinute
    /\ \A i \in 1 .. Len(jobs) : jobs[i].pid = 0 /\ jobs[i].time > now

(* C20: every child reaped by reap_zombies belongs to a job in the table:  *)
(* whenever waitpid hands reap_zombies the pid of an exited child, some    *)
(* job's pid field holds that pid, so the loop of lines 605-610 finds it   *)
(* and the branch of lines 612-615 is not taken.                           *)
C20_ReapedChildHasJob ==
    [][\A p \in 1 .. MaxPids :
          ReapChild(p) => \E i \in 1 .. Len(jobs) : jobs[i].pid = p]_vars

(* C21: whenever the main loop calls wait_for_event, next is consistent    *)
(* with the table: next is -1 exactly when the table is empty, and         *)
(* otherwise 0 <= next < numJobs and jobs[next].time is the least time of  *)
(* all jobs in the table.                                                  *)
C21_NextConsistent ==
    pc = "wait" =>
        /\ next = -1 <=> Len(jobs) = 0
        /\ next # -1 =>
              /\ next \in 0 .. Len(jobs) - 1
              /\ \A k \in 1 .. Len(jobs) : jobs[next + 1].time <= jobs[k].time

(* wait_for_event is called right after update_job evicted the selected    *)
(* job, whose slot the last job was moved into.                            *)
C21_Witness ==
    /\ pc = "wait"
    /\ text = TabLeapDay
    /\ event = "REACHED_TARGET"
    /\ Len(jobs) = 1
    /\ jobs[1].lineno = 2
    /\ next = 0

(* Some job of the table is due: its fire time is not after now. *)
SomeJobDue == \E k \in 1 .. Len(jobs) : jobs[k].time <= now

(* C22: all due jobs are dispatched before the daemon sleeps. Whenever the *)
(* daemon enters a timed sleep, every job in the table has a fire time     *)
(* strictly greater than now; and while some job is due, the step that     *)
(* leaves the call of wait_for_event is the dispatch of a due job          *)
(* (REACHED_TARGET or SKIPPED_TARGET, never a sleep or a pause), after     *)
(* which that job is no longer due, so jobs sharing a fire minute are      *)
(* dispatched in consecutive iterations.                                   *)
C22_DueJobsDispatchedBeforeSleep ==
    [][/\ pc' = "sleep" => \A k \in 1 .. Len(jobs') : jobs'[k].time > now'
       /\ (pc = "wait" /\ SomeJobDue /\ pc' \notin {"wait", "dead"}) =>
              /\ Dispatch
              /\ event' \in {"REACHED_TARGET", "SKIPPED_TARGET"}
              /\ now' = now
              /\ \A k \in 1 .. Len(jobs') :
                    jobs'[k].lineno = jobs[next + 1].lineno => jobs'[k].time > now
              /\ \A i \in 1 .. Len(jobs) :
                    i # next + 1 =>
                        /\ HasLine(jobs', jobs[i].lineno)
                        /\ JobOfLine(jobs', jobs[i].lineno).time = jobs[i].time]_vars

(* The daemon sleeps at 00:02:00 after both jobs of the crontab, which     *)
(* share that fire minute, were dispatched: `*/2 * * * * b` was run and    *)
(* `* * * * * a` was run or skipped as still running.                      *)
C22_Witness ==
    /\ pc = "sleep"
    /\ text = TabEveryMinute
    /\ now = DaemonStart + 90
    /\ Len(jobs) = 2
    /\ jobs[1].time > now
    /\ jobs[2].time > now
    /\ ChildrenOf(procs, 2) # {}

====
